---- MODULE Spec2Model ----
(***************************************************************************)
(* NeuraX signaling server (src/server/server.py): the session-pairing and *)
(* relay state machine.  Connections create / join sessions under a role   *)
(* and the server relays offer / answer / ice_candidate events to the      *)
(* Socket.IO room named after the session.                                 *)
(*                                                                         *)
(* Values are integers: connection ids (request.sid), session ids and      *)
(* payloads are 1..N; None is what dict.get returns for an absent key and  *)
(* Empty is a present but falsy value (the empty string).                  *)
(***************************************************************************)
EXTENDS Integers, FiniteSets, Sequences, TLC

NumConns == 3
NumSessions == 1
NumPayloads == 2

None == -1
Empty == 0

Conns == 1..NumConns
SessionIds == 1..NumSessions
Payloads == 1..NumPayloads

VARIABLES
    connected,        \* sids of the live connections (transport boundary)
    active_sessions,  \* session_id -> [client_id, compute_id]
    rooms,            \* Socket.IO room name -> set of member sids
    last,             \* the inbound event handled last: event, request.sid, data
    out,              \* the events the last handler delivered, one per recipient
    bcast,            \* the room broadcasts (socketio.emit(..., room=)) of the last handler
    removed,          \* session ids deleted by a disconnect and not created again since
    survivors,        \* history: session id -> peers its deletion left behind, not registered for it since
    pc,               \* statement-level run: where each connection's handler stands
    loc,              \* statement-level run: the handler's locals, per connection
    running,          \* statement-level run: the handler holding the CPU, or None
    fault             \* statement-level run: connections whose handler raised KeyError

vars == <<connected, active_sessions, rooms, last, out, bcast, removed, survivors,
          pc, loc, running, fault>>

\* What the handler-level run observes, and what the statement-level run adds.
observed == <<last, out, bcast, removed, survivors>>
stepvars == <<pc, loc, running, fault>>

----------------------------------------------------------------------------
(* Python helpers *)

\* `not x` for the values a field can take: None and the empty string are falsy.
\* Only an absent key is rejected: `if session_id is None`
Falsy_NoneOnly(x) == x = None

Falsy(x) == x \in {None, Empty}

\* A session record is a dict with optional keys client_id / compute_id;
\* an absent key is held as None, which is what .get() returns for it.
NewSession == [client_id |-> None, compute_id |-> None]

\* active_sessions.get(session_id, {})
SessionGet(store, session_id) ==
    IF session_id \in DOMAIN store THEN store[session_id] ELSE NewSession

\* The inbound payload dict, read with data.get(key).
Data(session_id, offer, answer, candidate) ==
    [session_id |-> session_id, offer |-> offer, answer |-> answer,
     candidate |-> candidate]

NoData == Data(None, None, None, None)

\* One event as a recipient sees it.
Event(to, event, session_id, payload, from, role, message) ==
    [to |-> to, event |-> event, session_id |-> session_id, payload |-> payload,
     from |-> from, role |-> role, message |-> message]

\* emit('error', {'message': message}) : to the caller only
ErrorEvent(sid, message) == Event(sid, "error", None, None, None, "", message)

\* The inbound event record: the event name, request.sid and the payload dict.
Inbound(event, sid, data) == [event |-> event, sid |-> sid, data |-> data]

\* No event is being handled: the last handler's output has been written out.
NoEvent == Inbound("none", None, NoData)

Idle == last = NoEvent

\* The locals of a handler: session_id, and the sessions_to_remove still to delete.
Locals(session_id, todo) == [session_id |-> session_id, todo |-> todo]

NoLocals == Locals(None, {})

----------------------------------------------------------------------------
Init ==
    /\ connected = {}
    /\ active_sessions = [s \in {} |-> NewSession]
    /\ rooms = [s \in SessionIds |-> {}]
    /\ last = NoEvent
    /\ out = {}
    /\ bcast = {}
    /\ removed = {}
    /\ survivors = [s \in SessionIds |-> {}]
    /\ pc = [c \in Conns |-> "idle"]
    /\ loc = [c \in Conns |-> NoLocals]
    /\ running = None
    /\ fault = {}

----------------------------------------------------------------------------
(* connect / disconnect *)

handle_connect(c) ==
    /\ Idle
    /\ UNCHANGED stepvars
    /\ c \notin connected
    /\ connected' = connected \cup {c}
    /\ last' = Inbound("connect", c, NoData)
    /\ out' = {Event(c, "connected", None, None, None, "",
                     "Connected to NeuraX signaling server")}
    /\ bcast' = {}
    /\ UNCHANGED <<active_sessions, rooms, removed>>

\* Every session is cleaned up on any disconnect.
SessionsToRemove_Any(store, sid) == DOMAIN store

\* The scan looks at the client role only.
SessionsToRemove_ClientOnly(store, sid) ==
    {s \in DOMAIN store : store[s].client_id = sid}

\* for session_id, session_data in active_sessions.items(): if ... append
SessionsToRemove(store, sid) ==
    {s \in DOMAIN store : store[s].client_id = sid \/ store[s].compute_id = sid}

\* The whole store is cleared: active_sessions.clear()
DeleteSessions_All(store, ids) == [s \in {} |-> NewSession]

\* The cleanup loop is skipped: nothing is deleted.
DeleteSessions_Skipped(store, ids) == store

\* The record is emptied, not deleted: active_sessions[session_id] = {}
DeleteSessions_Emptied(store, ids) ==
    [s \in DOMAIN store |-> IF s \in ids THEN NewSession ELSE store[s]]

\* for session_id in sessions_to_remove: del active_sessions[session_id]
DeleteSessions(store, ids) == [s \in DOMAIN store \ ids |-> store[s]]

\* The transport drops a disconnected sid from every room after the handler.
LeaveAllRooms(rs, sid) == [s \in DOMAIN rs |-> rs[s] \ {sid}]

handle_disconnect(c) ==
    /\ Idle
    /\ UNCHANGED stepvars
    /\ c \in connected
    /\ LET sessions_to_remove == SessionsToRemove(active_sessions, c) IN
        /\ active_sessions' = DeleteSessions(active_sessions, sessions_to_remove)
        /\ removed' = removed \cup sessions_to_remove
    /\ rooms' = LeaveAllRooms(rooms, c)
    /\ connected' = connected \ {c}
    /\ last' = Inbound("disconnect", c, NoData)
    /\ out' = {}
    /\ bcast' = {}

----------------------------------------------------------------------------
(* registration *)

\* The record is replaced by a fresh one on every create_session.
RegisterClient_Fresh(store, session_id, sid) ==
    [s \in DOMAIN store \cup {session_id} |->
        IF s = session_id
        THEN [NewSession EXCEPT !.client_id = sid]
        ELSE store[s]]

\* if session_id not in active_sessions: active_sessions[session_id] = {}
\* active_sessions[session_id]['client_id'] = request.sid
RegisterClient(store, session_id, sid) ==
    [s \in DOMAIN store \cup {session_id} |->
        IF s = session_id
        THEN [SessionGet(store, session_id) EXCEPT !.client_id = sid]
        ELSE store[s]]

\* The compute node is written into the client slot.
RegisterCompute_ClientSlot(store, session_id, sid) ==
    [store EXCEPT ![session_id].client_id = sid]

\* First writer wins: an occupied compute slot is kept.
RegisterCompute_KeepFirst(store, session_id, sid) ==
    IF store[session_id].compute_id = None
    THEN [store EXCEPT ![session_id].compute_id = sid]
    ELSE store

\* active_sessions[session_id]['compute_id'] = request.sid
RegisterCompute(store, session_id, sid) ==
    [store EXCEPT ![session_id].compute_id = sid]

\* join_room(session_id)
JoinRoom(rs, room, sid) == [rs EXCEPT ![room] = @ \cup {sid}]

handle_create_session(c, data) ==
    /\ Idle
    /\ UNCHANGED stepvars
    /\ c \in connected
    /\ last' = Inbound("create_session", c, data)
    /\ bcast' = {}
    /\ LET session_id == data.session_id IN
        IF Falsy(session_id)
        THEN /\ out' = {ErrorEvent(c, "session_id required")}
             /\ UNCHANGED <<connected, active_sessions, rooms, removed>>
        ELSE /\ active_sessions' = RegisterClient(active_sessions, session_id, c)
             /\ rooms' = JoinRoom(rooms, session_id, c)
             /\ removed' = removed \ {session_id}
             /\ out' = {Event(c, "session_created", session_id, None, None, "", "")}
             /\ UNCHANGED connected

\* The existence check is skipped: a session is made on demand.
SessionExists_Skipped(store, session_id) == TRUE

\* if session_id not in active_sessions
SessionExists(store, session_id) == session_id \in DOMAIN store

handle_join_as_compute(c, data) ==
    /\ Idle
    /\ UNCHANGED stepvars
    /\ c \in connected
    /\ last' = Inbound("join_as_compute", c, data)
    /\ bcast' = {}
    /\ LET session_id == data.session_id IN
        IF Falsy(session_id)
        THEN /\ out' = {ErrorEvent(c, "session_id required")}
             /\ UNCHANGED <<connected, active_sessions, rooms, removed>>
        ELSE IF ~SessionExists(active_sessions, session_id)
        THEN /\ out' = {ErrorEvent(c, "Session not found")}
             /\ UNCHANGED <<connected, active_sessions, rooms, removed>>
        ELSE /\ active_sessions' = RegisterCompute(active_sessions, session_id, c)
             /\ rooms' = JoinRoom(rooms, session_id, c)
             /\ out' = {Event(c, "joined", session_id, None, None, "compute", "")}
             /\ UNCHANGED <<connected, removed>>

----------------------------------------------------------------------------
(* relay *)

\* socketio.emit(event, {'session_id':, <event>:, 'from':}, room=session_id):
\* one copy to every member of the room, the sender included.
RoomRecipients(rs, room) == rs[room]

\* The relayed event carries no 'from' key.
Broadcast_FromOmitted(rs, event, session_id, payload, sid) ==
    {Event(to, event, session_id, payload, None, "", "") :
        to \in RoomRecipients(rs, session_id)}

\* The session id is sent in the place of the payload.
Broadcast_SessionAsPayload(rs, event, session_id, payload, sid) ==
    {Event(to, event, session_id, session_id, sid, "", "") :
        to \in RoomRecipients(rs, session_id)}

Broadcast(rs, event, session_id, payload, sid) ==
    {Event(to, event, session_id, payload, sid, "", "") :
        to \in RoomRecipients(rs, session_id)}

BroadcastCall(event, session_id, payload, sid) ==
    [room |-> session_id, event |-> event, session_id |-> session_id,
     payload |-> payload, from |-> sid]

\* Either role of the session may send an offer.
IsClient_AnyRole(store, session_id, sid) ==
    sid \in {SessionGet(store, session_id).client_id,
             SessionGet(store, session_id).compute_id}

\* active_sessions.get(session_id, {}).get('client_id') != request.sid
IsClient(store, session_id, sid) ==
    SessionGet(store, session_id).client_id = sid

\* Any connection may answer in a session that exists.
IsCompute_AnySender(store, session_id, sid) == session_id \in DOMAIN store

\* active_sessions.get(session_id, {}).get('compute_id') != request.sid
IsCompute(store, session_id, sid) ==
    SessionGet(store, session_id).compute_id = sid

\* Only the client role is looked at.
IsPeer_ClientOnly(store, session_id, sid) ==
    SessionGet(store, session_id).client_id = sid

\* session_data.get('client_id') != sid and session_data.get('compute_id') != sid
IsPeer(store, session_id, sid) ==
    LET session_data == SessionGet(store, session_id) IN
    session_data.client_id = sid \/ session_data.compute_id = sid

\* Authorization is checked first, the required fields second.
Relay_AuthorizeFirst(c, event, session_id, payload, authorized, required, unauthorized) ==
    /\ UNCHANGED <<connected, active_sessions, rooms, removed>>
    /\ IF ~authorized
       THEN /\ out' = {ErrorEvent(c, unauthorized)}
            /\ bcast' = {}
       ELSE IF Falsy(session_id) \/ Falsy(payload)
       THEN /\ out' = {ErrorEvent(c, required)}
            /\ bcast' = {}
       ELSE /\ out' = Broadcast(rooms, event, session_id, payload, c)
            /\ bcast' = {BroadcastCall(event, session_id, payload, c)}

\* The common shape of the three relay handlers: validate, authorize, broadcast.
Relay(c, event, session_id, payload, authorized, required, unauthorized) ==
    /\ UNCHANGED <<connected, active_sessions, rooms, removed>>
    /\ IF Falsy(session_id) \/ Falsy(payload)
       THEN /\ out' = {ErrorEvent(c, required)}
            /\ bcast' = {}
       ELSE IF ~authorized
       THEN /\ out' = {ErrorEvent(c, unauthorized)}
            /\ bcast' = {}
       ELSE /\ out' = Broadcast(rooms, event, session_id, payload, c)
            /\ bcast' = {BroadcastCall(event, session_id, payload, c)}

handle_offer(c, data) ==
    /\ Idle
    /\ UNCHANGED stepvars
    /\ c \in connected
    /\ last' = Inbound("offer", c, data)
    /\ Relay(c, "offer", data.session_id, data.offer,
             IsClient(active_sessions, data.session_id, c),
             "session_id and offer required",
             "Unauthorized: not client for this session")

handle_answer(c, data) ==
    /\ Idle
    /\ UNCHANGED stepvars
    /\ c \in connected
    /\ last' = Inbound("answer", c, data)
    /\ Relay(c, "answer", data.session_id, data.answer,
             IsCompute(active_sessions, data.session_id, c),
             "session_id and answer required",
             "Unauthorized: not compute for this session")

handle_ice_candidate(c, data) ==
    /\ Idle
    /\ UNCHANGED stepvars
    /\ c \in connected
    /\ last' = Inbound("ice_candidate", c, data)
    /\ Relay(c, "ice_candidate", data.session_id, data.candidate,
             IsPeer(active_sessions, data.session_id, c),
             "session_id and candidate required",
             "Unauthorized: not in this session")

----------------------------------------------------------------------------
(* The transport writes the handler's outbound events to their recipients   *)
(* before the next inbound event is dispatched.                             *)
deliver ==
    /\ ~Idle
    /\ UNCHANGED stepvars
    /\ last' = NoEvent
    /\ out' = {}
    /\ bcast' = {}
    /\ UNCHANGED <<connected, active_sessions, rooms, removed>>

----------------------------------------------------------------------------
(* inputs *)

FieldValues(S) == {None, Empty} \cup S

SessionData == {Data(s, None, None, None) : s \in FieldValues(SessionIds)}
\* (session_id, payload) of a relay event. `not session_id or not offer` does
\* not look at the payload when session_id is falsy: an absent and a set
\* payload stand for all of them there.
RelayFields == {f \in FieldValues(SessionIds) \X FieldValues(Payloads) :
                    Falsy(f[1]) => f[2] \in {None, NumPayloads}}
OfferData == {Data(f[1], f[2], None, None) : f \in RelayFields}
AnswerData == {Data(f[1], None, f[2], None) : f \in RelayFields}
CandidateData == {Data(f[1], None, None, f[2]) : f \in RelayFields}

\* The handler-level run; the history of deletions is not recorded in it.
Next ==
    \/ \E c \in Conns : handle_connect(c) /\ UNCHANGED survivors
    \/ \E c \in Conns : handle_disconnect(c) /\ UNCHANGED survivors
    \/ \E c \in Conns, data \in SessionData :
          handle_create_session(c, data) /\ UNCHANGED survivors
    \/ \E c \in Conns, data \in SessionData :
          handle_join_as_compute(c, data) /\ UNCHANGED survivors
    \/ \E c \in Conns, data \in OfferData :
          handle_offer(c, data) /\ UNCHANGED survivors
    \/ \E c \in Conns, data \in AnswerData :
          handle_answer(c, data) /\ UNCHANGED survivors
    \/ \E c \in Conns, data \in CandidateData :
          handle_ice_candidate(c, data) /\ UNCHANGED survivors
    \/ deliver /\ UNCHANGED survivors

Spec == Init /\ [][Next]_vars

----------------------------------------------------------------------------
(* The handler-level run with the history of deletions recorded: the same   *)
(* handlers, and beside them the peers that a disconnect's cleanup left     *)
(* behind, each until it registers for the session again or disconnects.    *)

\* The occupants of the deleted sessions other than the disconnecting sid.
LeftBehind(sv, store, ids, sid) ==
    [s \in DOMAIN sv |->
        (IF s \in ids
         THEN sv[s] \cup ({store[s].client_id, store[s].compute_id} \ {None})
         ELSE sv[s]) \ {sid}]

\* sid has registered for session_id again.
Registered(sv, session_id, sid) == [sv EXCEPT ![session_id] = @ \ {sid}]

PairingNext ==
    \/ \E c \in Conns : handle_connect(c) /\ UNCHANGED survivors
    \/ \E c \in Conns :
          /\ handle_disconnect(c)
          /\ survivors' = LeftBehind(survivors, active_sessions,
                                     SessionsToRemove(active_sessions, c), c)
    \/ \E c \in Conns, data \in SessionData :
          /\ handle_create_session(c, data)
          /\ survivors' = IF Falsy(data.session_id)
                          THEN survivors
                          ELSE Registered(survivors, data.session_id, c)
    \/ \E c \in Conns, data \in SessionData :
          /\ handle_join_as_compute(c, data)
          /\ survivors' = IF \/ Falsy(data.session_id)
                             \/ ~SessionExists(active_sessions, data.session_id)
                          THEN survivors
                          ELSE Registered(survivors, data.session_id, c)
    \/ \E c \in Conns, data \in OfferData :
          handle_offer(c, data) /\ UNCHANGED survivors
    \/ \E c \in Conns, data \in AnswerData :
          handle_answer(c, data) /\ UNCHANGED survivors
    \/ \E c \in Conns, data \in CandidateData :
          handle_ice_candidate(c, data) /\ UNCHANGED survivors
    \/ deliver /\ UNCHANGED survivors

PairingSpec == Init /\ [][PairingNext]_vars

----------------------------------------------------------------------------
(* The statement-level run of the handlers that write the store.            *)
(*                                                                          *)
(* SocketIO(async_mode='eventlet') runs every handler in a green thread of  *)
(* one OS thread: a handler keeps the CPU from statement to statement and   *)
(* another handler runs only when the running one reaches a point where it  *)
(* hands control to the hub: a network send (emit) or its return.  The      *)
(* events of one connection are handled in order, so a connection has at    *)
(* most one handler in flight.  Room membership and the emitted events play *)
(* no part in the store accesses and are left to the handler-level run.     *)

\* A preemptive runtime: a switch may follow any statement.
YieldPoint_Preemptive(label) == TRUE

\* The labels at which the handler standing there has handed the CPU back:
\* it is idle, or it is in the join_room / emit tail that ends it.
YieldPoint(label) == label \in {"idle", "cs_emit", "jc_emit"}

\* Connection c's handler may execute its next statement.
Scheduled(c) == running \in {None, c}

\* c's handler moves to `label` with locals `locals`.
Goto(c, label, locals) ==
    /\ pc' = [pc EXCEPT ![c] = label]
    /\ loc' = [loc EXCEPT ![c] = locals]
    /\ running' = IF YieldPoint(label) THEN None ELSE c

\* An uncaught KeyError ends c's handler.
Raise(c) ==
    /\ fault' = fault \cup {c}
    /\ Goto(c, "idle", NoLocals)

\* handle_connect: no store access.
step_connect(c) ==
    /\ pc[c] = "idle" /\ Scheduled(c)
    /\ c \notin connected
    /\ connected' = connected \cup {c}
    /\ Goto(c, "idle", NoLocals)
    /\ UNCHANGED <<active_sessions, rooms, fault, observed>>

\* create_session, lines 111-114: read and validate session_id
cs_get(c, data) ==
    /\ pc[c] = "idle" /\ Scheduled(c)
    /\ c \in connected
    /\ IF Falsy(data.session_id)
       THEN Goto(c, "cs_emit", NoLocals)
       ELSE Goto(c, "cs_check", Locals(data.session_id, {}))
    /\ UNCHANGED <<connected, active_sessions, rooms, fault, observed>>

\* line 117: if session_id not in active_sessions
cs_check(c) ==
    /\ pc[c] = "cs_check" /\ Scheduled(c)
    /\ IF SessionExists(active_sessions, loc[c].session_id)
       THEN Goto(c, "cs_write", loc[c])
       ELSE Goto(c, "cs_new", loc[c])
    /\ UNCHANGED <<connected, active_sessions, rooms, fault, observed>>

\* line 118: active_sessions[session_id] = {}
cs_new(c) ==
    /\ pc[c] = "cs_new" /\ Scheduled(c)
    /\ active_sessions' =
        [s \in DOMAIN active_sessions \cup {loc[c].session_id} |->
            IF s = loc[c].session_id THEN NewSession ELSE active_sessions[s]]
    /\ Goto(c, "cs_write", loc[c])
    /\ UNCHANGED <<connected, rooms, fault, observed>>

\* line 120: active_sessions[session_id]['client_id'] = request.sid
cs_write(c) ==
    /\ pc[c] = "cs_write" /\ Scheduled(c)
    /\ IF loc[c].session_id \in DOMAIN active_sessions
       THEN /\ active_sessions' =
                [active_sessions EXCEPT ![loc[c].session_id].client_id = c]
            /\ Goto(c, "cs_emit", NoLocals)
            /\ UNCHANGED fault
       ELSE /\ Raise(c)
            /\ UNCHANGED active_sessions
    /\ UNCHANGED <<connected, rooms, observed>>

\* lines 113-114 and 124-127: join_room and the emit that ends the handler
cs_emit(c) ==
    /\ pc[c] = "cs_emit" /\ Scheduled(c)
    /\ Goto(c, "idle", NoLocals)
    /\ UNCHANGED <<connected, active_sessions, rooms, fault, observed>>

\* join_as_compute, lines 140-143: read and validate session_id
jc_get(c, data) ==
    /\ pc[c] = "idle" /\ Scheduled(c)
    /\ c \in connected
    /\ IF Falsy(data.session_id)
       THEN Goto(c, "jc_emit", NoLocals)
       ELSE Goto(c, "jc_check", Locals(data.session_id, {}))
    /\ UNCHANGED <<connected, active_sessions, rooms, fault, observed>>

\* line 146: if session_id not in active_sessions
jc_check(c) ==
    /\ pc[c] = "jc_check" /\ Scheduled(c)
    /\ IF SessionExists(active_sessions, loc[c].session_id)
       THEN Goto(c, "jc_write", loc[c])
       ELSE Goto(c, "jc_emit", NoLocals)
    /\ UNCHANGED <<connected, active_sessions, rooms, fault, observed>>

\* line 151: active_sessions[session_id]['compute_id'] = request.sid
jc_write(c) ==
    /\ pc[c] = "jc_write" /\ Scheduled(c)
    /\ IF loc[c].session_id \in DOMAIN active_sessions
       THEN /\ active_sessions' = RegisterCompute(active_sessions, loc[c].session_id, c)
            /\ Goto(c, "jc_emit", NoLocals)
            /\ UNCHANGED fault
       ELSE /\ Raise(c)
            /\ UNCHANGED active_sessions
    /\ UNCHANGED <<connected, rooms, observed>>

\* lines 142-143, 147-148 and 154-157: join_room and the emit that ends the handler
jc_emit(c) ==
    /\ pc[c] = "jc_emit" /\ Scheduled(c)
    /\ Goto(c, "idle", NoLocals)
    /\ UNCHANGED <<connected, active_sessions, rooms, fault, observed>>

\* disconnect, lines 89-93: the scan that fills sessions_to_remove
dc_scan(c) ==
    /\ pc[c] = "idle" /\ Scheduled(c)
    /\ c \in connected
    /\ Goto(c, "dc_del", Locals(None, SessionsToRemove(active_sessions, c)))
    /\ UNCHANGED <<connected, active_sessions, rooms, fault, observed>>

\* lines 96-97: del active_sessions[session_id], one iteration of the loop;
\* a KeyError ends the loop and the handler
dc_del(c) ==
    /\ pc[c] = "dc_del" /\ Scheduled(c)
    /\ \E s \in loc[c].todo :
        IF s \in DOMAIN active_sessions
        THEN /\ active_sessions' = DeleteSessions(active_sessions, {s})
             /\ Goto(c, "dc_del", Locals(None, loc[c].todo \ {s}))
             /\ UNCHANGED fault
        ELSE /\ fault' = fault \cup {c}
             /\ Goto(c, "dc_del", NoLocals)
             /\ UNCHANGED active_sessions
    /\ UNCHANGED <<connected, rooms, observed>>

\* The handler is over: the transport forgets the connection.
dc_end(c) ==
    /\ pc[c] = "dc_del" /\ Scheduled(c)
    /\ loc[c].todo = {}
    /\ connected' = connected \ {c}
    /\ Goto(c, "idle", NoLocals)
    /\ UNCHANGED <<active_sessions, rooms, fault, observed>>

StepNext ==
    \/ \E c \in Conns : step_connect(c)
    \/ \E c \in Conns, data \in SessionData : cs_get(c, data)
    \/ \E c \in Conns : cs_check(c)
    \/ \E c \in Conns : cs_new(c)
    \/ \E c \in Conns : cs_write(c)
    \/ \E c \in Conns : cs_emit(c)
    \/ \E c \in Conns, data \in SessionData : jc_get(c, data)
    \/ \E c \in Conns : jc_check(c)
    \/ \E c \in Conns : jc_write(c)
    \/ \E c \in Conns : jc_emit(c)
    \/ \E c \in Conns : dc_scan(c)
    \/ \E c \in Conns : dc_del(c)
    \/ \E c \in Conns : dc_end(c)

StepSpec == Init /\ [][StepNext]_vars

----------------------------------------------------------------------------
(* Vocabulary of the properties *)

RelayEvents == {"offer", "answer", "ice_candidate"}

\* The occupant of a role slot of session s; None when s is not in the store or
\* the slot is unset.
ClientOf(s) == IF s \in DOMAIN active_sessions THEN active_sessions[s].client_id ELSE None
ComputeOf(s) == IF s \in DOMAIN active_sessions THEN active_sessions[s].compute_id ELSE None

\* The connections recorded in the role slots of session s.
Occupants(s) == {ClientOf(s), ComputeOf(s)} \ {None}

\* The payload field an inbound relay event carries.
PayloadOf(l) ==
    CASE l.event = "offer" -> l.data.offer
      [] l.event = "answer" -> l.data.answer
      [] l.event = "ice_candidate" -> l.data.candidate
      [] OTHER -> None

\* The inbound event handled last named a session and carried its payload.
FieldsPresent == ~Falsy(last.data.session_id) /\ ~Falsy(PayloadOf(last))

\* The only output of the last handler is one error event to its caller.
OnlyError(message) == out = {ErrorEvent(last.sid, message)} /\ bcast = {}

----------------------------------------------------------------------------
\* C1: the relay is fail-closed. Whatever happened before, a handler broadcasts
\* an offer to room s only when its sender is, in the store it runs on, the
\* client_connection of s, an answer only when the sender is the
\* compute_connection of s, and an ice_candidate only when the sender is one of
\* the two; a missing session or an unset slot never authorizes, and nothing but
\* a relay event for s broadcasts to room s.
C1_FailClosed ==
    [][\A b \in bcast' :
        /\ last'.event \in RelayEvents
        /\ b.event = last'.event
        /\ b.from = last'.sid
        /\ b.room = last'.data.session_id
        /\ b.room \in DOMAIN active_sessions
        /\ b.event = "offer" => active_sessions[b.room].client_id = b.from
        /\ b.event = "answer" => active_sessions[b.room].compute_id = b.from
        /\ b.event = "ice_candidate" =>
              b.from \in {active_sessions[b.room].client_id,
                          active_sessions[b.room].compute_id}]_vars

\* An answer of the compute peer of a session with a different client was broadcast.
C1_Witness ==
    /\ last.event = "answer"
    /\ bcast # {}
    /\ ComputeOf(last.data.session_id) = last.sid
    /\ ClientOf(last.data.session_id) \notin {None, last.sid}

----------------------------------------------------------------------------
\* C2 as stated: every offer event from a connection that is not the client of
\* the named session gets exactly one UnauthorizedError event, whatever its
\* payload fields, and nothing is broadcast.
C2_AlwaysUnauthorized ==
    (/\ last.event = "offer"
     /\ ~Falsy(last.data.session_id)
     /\ ClientOf(last.data.session_id) # last.sid)
        => OnlyError("Unauthorized: not client for this session")

\* C2 amended: an offer from a connection that is not the client of the named
\* session is never broadcast and its sender alone gets one error event:
\* UnauthorizedError when session_id and offer are both present and non-empty,
\* ValidationError when one of them is missing or empty.
C2_NonClientOfferRejected ==
    (last.event = "offer" /\ ClientOf(last.data.session_id) # last.sid)
        => IF FieldsPresent
           THEN OnlyError("Unauthorized: not client for this session")
           ELSE OnlyError("session_id and offer required")

\* A well-formed offer for an existing, paired session, sent by a connection
\* that is not its client, while the compute peer is someone else.
C2_Witness ==
    /\ last.event = "offer"
    /\ FieldsPresent
    /\ ClientOf(last.data.session_id) \notin {None, last.sid}
    /\ ComputeOf(last.data.session_id) \notin {None, last.sid}
    /\ OnlyError("Unauthorized: not client for this session")

----------------------------------------------------------------------------
\* C3: room membership tracks the session. The members of room s are exactly
\* the connections recorded in the role slots of session s, and room s is empty
\* when session s is not in the store.
C3_RoomTracksSession == \A s \in SessionIds : rooms[s] = Occupants(s)

----------------------------------------------------------------------------
----------------------------------------------------------------------------
\* C5: join_as_compute for a session id (present and non-empty) that is not in
\* the store gets a NotFoundError event to the caller, leaves the store as it
\* was and adds the caller to no room.
C5_JoinMissingSession ==
    [][(/\ last'.event = "join_as_compute"
        /\ ~Falsy(last'.data.session_id)
        /\ last'.data.session_id \notin DOMAIN active_sessions) =>
            /\ out' = {ErrorEvent(last'.sid, "Session not found")}
            /\ bcast' = {}
            /\ active_sessions' = active_sessions
            /\ rooms' = rooms]_vars

\* A join for a session id that is not in the store, by a connection that is
\* no member of its room.
C5_Witness ==
    /\ last.event = "join_as_compute"
    /\ ~Falsy(last.data.session_id)
    /\ last.data.session_id \notin DOMAIN active_sessions
    /\ last.sid \notin rooms[last.data.session_id]
    /\ OnlyError("Session not found")

----------------------------------------------------------------------------
\* C6: an ice_candidate with session_id and candidate present is broadcast to
\* room s when its sender is the client of s and when it is the compute of s;
\* from a connection in neither role it gets an error event to the sender and
\* no broadcast.
C6_IceCandidateEitherPeer ==
    (last.event = "ice_candidate" /\ FieldsPresent) =>
        LET s == last.data.session_id IN
        IF last.sid \in Occupants(s)
        THEN /\ bcast = {BroadcastCall("ice_candidate", s, last.data.candidate, last.sid)}
             /\ out = {Event(to, "ice_candidate", s, last.data.candidate, last.sid, "", "") :
                          to \in rooms[s]}
        ELSE OnlyError("Unauthorized: not in this session")

\* A third connection, in neither role of a paired session, sent a candidate.
C6_Witness ==
    /\ last.event = "ice_candidate"
    /\ FieldsPresent
    /\ Cardinality(Occupants(last.data.session_id)) = 2
    /\ last.sid \notin Occupants(last.data.session_id)
    /\ OnlyError("Unauthorized: not in this session")

----------------------------------------------------------------------------
\* C8: end-to-end pairing. create_session(s) by A is confirmed to A alone with
\* session_created{s} and makes A the client; join_as_compute(s) by B on a
\* session whose client is A is confirmed to B alone with joined{compute, s} and
\* leaves s paired as (A, B) with both in the room; while s is paired as (A, B)
\* an offer of A reaches B as offer{s, offer, from: A} and an answer of B
\* reaches A as answer{s, answer, from: B}; and when A, the client of s,
\* disconnects, s is no longer in the store.
C8_EndToEnd ==
    [][LET A == ClientOf(last'.data.session_id)
           B == ComputeOf(last'.data.session_id)
           s == last'.data.session_id
       IN
       /\ (last'.event = "create_session" /\ ~Falsy(s)) =>
            /\ out' = {Event(last'.sid, "session_created", s, None, None, "", "")}
            /\ s \in DOMAIN active_sessions'
            /\ active_sessions'[s].client_id = last'.sid
       /\ (last'.event = "join_as_compute" /\ A # None) =>
            /\ out' = {Event(last'.sid, "joined", s, None, None, "compute", "")}
            /\ active_sessions'[s] = [client_id |-> A, compute_id |-> last'.sid]
            /\ {A, last'.sid} \subseteq rooms'[s]
       /\ (/\ last'.event = "offer" /\ last'.sid = A /\ B # None
           /\ ~Falsy(last'.data.offer)) =>
            Event(B, "offer", s, last'.data.offer, A, "", "") \in out'
       /\ (/\ last'.event = "answer" /\ last'.sid = B /\ A # None
           /\ ~Falsy(last'.data.answer)) =>
            Event(A, "answer", s, last'.data.answer, B, "", "") \in out'
       /\ last'.event = "disconnect" =>
            \A x \in DOMAIN active_sessions :
                active_sessions[x].client_id = last'.sid
                    => x \notin DOMAIN active_sessions']_vars

\* The answer of compute B reached client A of the session they are paired in.
C8_Witness ==
    /\ last.event = "answer"
    /\ ComputeOf(last.data.session_id) = last.sid
    /\ ClientOf(last.data.session_id) \notin {None, last.sid}
    /\ Event(ClientOf(last.data.session_id), "answer", last.data.session_id,
             last.data.answer, last.sid, "", "") \in out

----------------------------------------------------------------------------
\* C9: payload transparency. Every relayed event a recipient gets, and every
\* room broadcast, carries the event name, the session_id and the offer / answer
\* / candidate value the sender submitted in the event being handled, and the
\* sender's connection identifier as 'from'.
C9_PayloadTransparency ==
    /\ \A e \in out :
        e.event \in RelayEvents =>
            /\ e.event = last.event
            /\ e.session_id = last.data.session_id
            /\ e.payload = PayloadOf(last)
            /\ e.from = last.sid
    /\ \A b \in bcast :
            /\ b.event = last.event
            /\ b.session_id = last.data.session_id
            /\ b.room = last.data.session_id
            /\ b.payload = PayloadOf(last)
            /\ b.from = last.sid

\* A relayed event reached a connection other than its sender.
C9_Witness ==
    \E e \in out :
        /\ e.event \in RelayEvents
        /\ e.to # last.sid
        /\ e.payload \in Payloads
        /\ e.to \in Occupants(e.session_id)

----------------------------------------------------------------------------
\* C10: create_session is idempotent on the store for the connection that is
\* already the client of the session. A second create_session(s) by the client
\* of s leaves the store equal to what it was after the first, with s in it and
\* the caller as its client.
C10_CreateTwiceIdempotent ==
    [][(/\ last'.event = "create_session"
        /\ ~Falsy(last'.data.session_id)
        /\ ClientOf(last'.data.session_id) = last'.sid) =>
            /\ active_sessions' = active_sessions
            /\ last'.data.session_id \in DOMAIN active_sessions'
            /\ active_sessions'[last'.data.session_id].client_id = last'.sid]_vars

\* A create_session for a session that already has its compute peer, by the
\* connection that is its client.
C10_Witness ==
    /\ last.event = "create_session"
    /\ ClientOf(last.data.session_id) = last.sid
    /\ ComputeOf(last.data.session_id) \notin {None, last.sid}

----------------------------------------------------------------------------
\* C7: the store is accessed under mutual exclusion. While the handler of a
\* connection stands between the existence check and the role write of
\* create_session or join_as_compute, or between the scan and the last delete
\* of the disconnect cleanup, no step of another connection's handler changes
\* the store; and no handler faults on a session another handler deleted.
InCritical(c) ==
    \/ pc[c] \in {"cs_new", "cs_write", "jc_write"}
    \/ pc[c] = "dc_del" /\ loc[c].todo # {}

C7_MutualExclusion ==
    [][/\ \A c \in Conns :
            (InCritical(c) /\ pc'[c] = pc[c] /\ loc'[c] = loc[c])
                => active_sessions' = active_sessions
       /\ fault' = {}]_vars

\* The client's disconnect cleanup is about to delete a session while the
\* join_as_compute of its compute peer is still in flight, at its emit.
C7_Witness ==
    \E c \in Conns, d \in Conns, s \in SessionIds :
        /\ c # d
        /\ pc[c] = "dc_del"
        /\ pc[d] = "jc_emit"
        /\ s \in loc[c].todo
        /\ s \in DOMAIN active_sessions
        /\ active_sessions[s] = [client_id |-> c, compute_id |-> d]

----------------------------------------------------------------------------
\* C11: every session in the store has at least one of its two role slots
\* populated; no record with both slots empty is retained.
C11_NoEmptySession ==
    \A s \in DOMAIN active_sessions :
        active_sessions[s].client_id # None \/ active_sessions[s].compute_id # None

\* A session has just been created: its record holds the creator as client
\* and an empty compute slot.
C11_Witness ==
    /\ last.event = "create_session"
    /\ \E s \in DOMAIN active_sessions :
          /\ last.data.session_id = s
          /\ active_sessions[s].client_id = last.sid
          /\ active_sessions[s].compute_id = None

----------------------------------------------------------------------------
\* C12: every failed create_session, join_as_compute, offer, answer or
\* ice_candidate attempt (a required field missing, the session not found,
\* the sender not authorized) produces exactly one error event, delivered to
\* the originating connection only; no other connection receives any event,
\* and the session store is left unchanged.
C12_Missing(v) == v \in {None, Empty}

C12_FailedAttempt ==
    LET data == last'.data
        sid == last'.sid
        session_data == SessionGet(active_sessions, data.session_id) IN
    \/ /\ last'.event \in {"create_session", "join_as_compute"}
       /\ C12_Missing(data.session_id)
    \/ /\ last'.event = "join_as_compute"
       /\ data.session_id \notin DOMAIN active_sessions
    \/ /\ last'.event = "offer"
       /\ \/ C12_Missing(data.session_id) \/ C12_Missing(data.offer)
          \/ session_data.client_id # sid
    \/ /\ last'.event = "answer"
       /\ \/ C12_Missing(data.session_id) \/ C12_Missing(data.answer)
          \/ session_data.compute_id # sid
    \/ /\ last'.event = "ice_candidate"
       /\ \/ C12_Missing(data.session_id) \/ C12_Missing(data.candidate)
          \/ sid \notin {session_data.client_id, session_data.compute_id}
    \/ \E e \in out' : e.event = "error"

C12_ErrorsLocal ==
    [][C12_FailedAttempt =>
        /\ \E e \in out' : /\ out' = {e}
                           /\ e.event = "error"
                           /\ e.to = last'.sid
                           /\ e.message # ""
        /\ bcast' = {}
        /\ active_sessions' = active_sessions
        /\ rooms' = rooms
        /\ connected' = connected]_vars

\* A connected non-member has sent an offer for an existing session that has
\* both peers, and the one event of the step is the error to that sender.
C12_Witness ==
    /\ last.event = "offer"
    /\ \E s \in DOMAIN active_sessions :
          /\ last.data.session_id = s
          /\ ClientOf(s) # None /\ ComputeOf(s) # None
          /\ last.sid \notin Occupants(s)
    /\ \E e \in out : out = {e} /\ e.event = "error" /\ e.to = last.sid

----------------------------------------------------------------------------
\* C13 (as stated): no event delivered to a connection carries the connection
\* identifier of a different connection.
C13_NoForeignIdentifier ==
    \A e \in out : e.from \in {None, e.to}

\* C13 (amended): the only connection identifier an event carries is the
\* sender's own, in the 'from' field of a relayed offer, answer or
\* ice_candidate, which every recipient of the relay receives; connected,
\* session_created, joined and error events carry no connection identifier
\* and go to the caller only.
C13_FromIsSender ==
    \A e \in out :
        /\ e.event \in RelayEvents => e.from = last.sid
        /\ e.event \notin RelayEvents => e.from = None /\ e.to = last.sid

\* The compute peer of a session receives an offer whose 'from' is the
\* client's connection identifier.
C13_Witness ==
    \E e \in out :
        /\ e.event = "offer"
        /\ e.session_id \in DOMAIN active_sessions
        /\ e.to = ComputeOf(e.session_id)
        /\ e.from = ClientOf(e.session_id)
        /\ e.from # e.to

----------------------------------------------------------------------------
\* C14: a relayed message is delivered to the other members of the session's
\* room and not to its own sender: the recipients of every relayed offer,
\* answer or ice_candidate exclude the sending connection.
C14_SenderExcluded ==
    \A e \in out : e.event \in RelayEvents => e.to # last.sid

----------------------------------------------------------------------------
\* C15: for every relay event the required fields are checked before
\* authorization: an offer, answer or ice_candidate missing session_id or its
\* payload field yields the ValidationError of that event, whether or not the
\* sender is authorized or the session exists; one with all fields present for
\* a session that is not in the store yields the UnauthorizedError of that
\* event.
C15_RequiredMessage ==
    CASE last.event = "offer" -> "session_id and offer required"
      [] last.event = "answer" -> "session_id and answer required"
      [] last.event = "ice_candidate" -> "session_id and candidate required"
      [] OTHER -> ""

C15_UnauthorizedMessage ==
    CASE last.event = "offer" -> "Unauthorized: not client for this session"
      [] last.event = "answer" -> "Unauthorized: not compute for this session"
      [] last.event = "ice_candidate" -> "Unauthorized: not in this session"
      [] OTHER -> ""

C15_ValidationFirst ==
    last.event \in RelayEvents =>
        /\ ~FieldsPresent => OnlyError(C15_RequiredMessage)
        /\ (FieldsPresent /\ last.data.session_id \notin DOMAIN active_sessions)
               => OnlyError(C15_UnauthorizedMessage)

\* The client of a session sends an offer for it with an empty offer field and
\* gets the validation error.
C15_Witness ==
    /\ last.event = "offer"
    /\ last.data.session_id \in DOMAIN active_sessions
    /\ ClientOf(last.data.session_id) = last.sid
    /\ last.data.offer = Empty
    /\ OnlyError("session_id and offer required")

----------------------------------------------------------------------------
\* The step registers last'.sid for a role of session s that a different
\* connection holds: create_session for the client role, join_as_compute for
\* the compute role.
C16_Displaces(s, event, slot) ==
    /\ last'.event = event
    /\ last'.data.session_id = s
    /\ slot \notin {None, last'.sid}

\* What the displacing step does: the slot becomes Y, the other slot keeps its
\* value, the one event of the step is the confirmation to Y, and X is no
\* longer the occupant that the authorization of the role's message looks for.
C16_ClientOverwritten(s, X, Y) ==
    /\ active_sessions'[s].client_id = Y
    /\ active_sessions'[s].compute_id = active_sessions[s].compute_id
    /\ out' = {Event(Y, "session_created", s, None, None, "", "")}
    /\ IsClient(active_sessions', s, Y) /\ ~IsClient(active_sessions', s, X)

C16_ComputeOverwritten(s, X, Y) ==
    /\ active_sessions'[s].compute_id = Y
    /\ active_sessions'[s].client_id = active_sessions[s].client_id
    /\ out' = {Event(Y, "joined", s, None, None, "compute", "")}
    /\ IsCompute(active_sessions', s, Y) /\ ~IsCompute(active_sessions', s, X)

\* An offer (answer) with its fields present is relayed when its sender is the
\* client (compute) of the session and rejected as unauthorized otherwise.
C16_RoleDecides ==
    LET s == last.data.session_id
        relayed == bcast = {BroadcastCall(last.event, s, PayloadOf(last), last.sid)} IN
    /\ (last.event = "offer" /\ FieldsPresent) =>
          IF SessionGet(active_sessions, s).client_id = last.sid
          THEN relayed
          ELSE OnlyError("Unauthorized: not client for this session")
    /\ (last.event = "answer" /\ FieldsPresent) =>
          IF SessionGet(active_sessions, s).compute_id = last.sid
          THEN relayed
          ELSE OnlyError("Unauthorized: not compute for this session")

\* C16 (as stated): when Y registers for a role of s that a different
\* connection X occupies, the slot becomes Y, the other slot is unchanged, X
\* receives no event, from then on X's offers (answers) for s are rejected as
\* unauthorized while Y's are relayed, and a disconnect of X after that does
\* not delete s.
C16_DisplacedNeverDeletes ==
    /\ []C16_RoleDecides
    /\ [][\A s \in DOMAIN active_sessions :
            /\ C16_Displaces(s, "create_session", ClientOf(s)) =>
                  /\ C16_ClientOverwritten(s, ClientOf(s), last'.sid)
                  /\ s \notin SessionsToRemove(active_sessions', ClientOf(s))
            /\ C16_Displaces(s, "join_as_compute", ComputeOf(s)) =>
                  /\ C16_ComputeOverwritten(s, ComputeOf(s), last'.sid)
                  /\ s \notin SessionsToRemove(active_sessions', ComputeOf(s))]_vars

\* C16 (amended): as above, except that a disconnect of X after the
\* displacement deletes s exactly when X also occupies the other role of s.
C16_LastWriterWins ==
    /\ []C16_RoleDecides
    /\ [][\A s \in DOMAIN active_sessions :
            /\ C16_Displaces(s, "create_session", ClientOf(s)) =>
                  /\ C16_ClientOverwritten(s, ClientOf(s), last'.sid)
                  /\ s \in SessionsToRemove(active_sessions', ClientOf(s))
                        <=> ComputeOf(s) = ClientOf(s)
            /\ C16_Displaces(s, "join_as_compute", ComputeOf(s)) =>
                  /\ C16_ComputeOverwritten(s, ComputeOf(s), last'.sid)
                  /\ s \in SessionsToRemove(active_sessions', ComputeOf(s))
                        <=> ClientOf(s) = ComputeOf(s)]_vars

\* A connection has just taken the client role of a session whose compute
\* slot is held by a third connection, while a connected earlier registrant
\* of the session is left in neither slot.
C16_Witness ==
    /\ last.event = "create_session"
    /\ \E s \in DOMAIN active_sessions :
          /\ last.data.session_id = s
          /\ ClientOf(s) = last.sid
          /\ ComputeOf(s) \notin {None, last.sid}
          /\ (rooms[s] \cap connected) \ Occupants(s) # {}

----------------------------------------------------------------------------
\* C17: sessions persist until a disconnect. A session in the store stays in
\* it across every connect, create_session, join_as_compute, offer, answer
\* and ice_candidate event, successful or failed, and is removed only by the
\* disconnect of a connection that occupies one of its role slots at that
\* moment.
C17_PersistUntilDisconnect ==
    [][\A s \in DOMAIN active_sessions :
          s \notin DOMAIN active_sessions' =>
              /\ last'.event = "disconnect"
              /\ last'.sid \in {active_sessions[s].client_id,
                               active_sessions[s].compute_id}]_vars

\* A disconnect has just removed a session, leaving a connected former member
\* of it behind.
C17_Witness ==
    /\ last.event = "disconnect"
    /\ \E s \in removed :
          /\ s \notin DOMAIN active_sessions
          /\ rooms[s] \cap connected # {}

----------------------------------------------------------------------------
\* C18: after session s is deleted because one of its peers disconnected, the
\* surviving connection receives no further offer, answer or ice_candidate
\* event for s unless it registers for s again, also when a different
\* connection re-creates s and relays messages in it.
C18_SurvivorDropped ==
    \A e \in out :
        e.event \in RelayEvents => e.to \notin survivors[e.session_id]

----------------------------------------------------------------------------
\* C19: no dangling occupants. Every connection identifier stored in the
\* client or compute slot of a session is a currently connected connection
\* (a connection's events are handled in order, none after its disconnect).
C19_OccupantsConnected ==
    \A s \in DOMAIN active_sessions :
        \A sid \in {active_sessions[s].client_id, active_sessions[s].compute_id} :
            sid # None => sid \in connected

\* A connection has just disconnected and a session is in the store whose
\* two slots hold two different connections.
C19_Witness ==
    /\ last.event = "disconnect"
    /\ last.sid \notin connected
    /\ \E s \in DOMAIN active_sessions :
          /\ ClientOf(s) # None /\ ComputeOf(s) # None
          /\ ClientOf(s) # ComputeOf(s)

----------------------------------------------------------------------------
====
